---- MODULE Spec2Model ----
(***************************************************************************)
(* Compliance toolkit: checklist loader, repository scanner, auditor,      *)
(* markdown report generator and the audit / report / certify / checklist  *)
(* commands.  Text is a sequence of one-character strings; a Python dict   *)
(* is a function whose DOMAIN is the set of keys it holds; Python None is  *)
(* the value None below.                                                   *)
(***************************************************************************)
EXTENDS Integers, Sequences, FiniteSets, TLC

VARIABLES cdir, fs, repo_arg, first, last

vars == <<cdir, fs, repo_arg, first, last>>

\* ------------------------------------------------------------------ bounds
\* deepest chain of sub-directories below the working directory
MaxDepth == 1
\* number of files the repository tree holds before the first command
MaxFiles == 2
\* number of entries in the checklist directory
MaxCFiles == 2

\* ------------------------------------------------------------------- text
NL == "\n"

UpperChars == <<"A", "B", "C", "D", "E", "F", "G", "H", "I", "J", "K", "L", "M", "N", "O", "P", "Q", "R", "S", "T", "U", "V", "W", "X", "Y", "Z">>
LowerChars == <<"a", "b", "c", "d", "e", "f", "g", "h", "i", "j", "k", "l", "m", "n", "o", "p", "q", "r", "s", "t", "u", "v", "w", "x", "y", "z">>

LowerOf ==
  [c \in { UpperChars[i] : i \in 1..26 } |->
     LowerChars[CHOOSE i \in 1..26 : UpperChars[i] = c]]

\* str.lower() on one character
lower_char(c) == IF c \in DOMAIN LowerOf THEN LowerOf[c] ELSE c

\* str.lower()
str_lower(s) == [i \in 1..Len(s) |-> lower_char(s[i])]

\* the Python test `k in data` on two strings
str_in(k, data) ==
  \E i \in 0..(Len(data) - Len(k)) : \A j \in 1..Len(k) : data[i + j] = k[j]

\* str.endswith(suffix)
endswith(s, suffix) ==
  /\ Len(suffix) <= Len(s)
  /\ \A j \in 1..Len(suffix) : s[Len(s) - Len(suffix) + j] = suffix[j]

Digits == <<"0", "1", "2", "3", "4", "5", "6", "7", "8", "9">>

\* str(n) of a non-negative int
RECURSIVE int_str(_)
int_str(n) ==
  IF n < 10 THEN <<Digits[n + 1]>>
  ELSE int_str(n \div 10) \o <<Digits[(n % 10) + 1]>>

\* Python None, and the text an f-string puts for a value
None == <<"None">>
format_value(v) == IF v = None THEN <<"N", "o", "n", "e">> ELSE v

\* '\n'.join(lines)
RECURSIVE join_lines(_)
join_lines(lines) ==
  IF lines = <<>> THEN <<>>
  ELSE IF Len(lines) = 1 THEN lines[1]
  ELSE lines[1] \o <<NL>> \o join_lines(Tail(lines))

\* dict.get(key, default)
dict_get(d, key, default) == IF key \in DOMAIN d THEN d[key] ELSE default

\* ------------------------------------------------------ checklist directory
\* A loaded value is tagged with its Python type: a dict (v is the function)
\* or a str (v is the text).
PyDict(d) == [t |-> "dict", v |-> d]
PyStr(s) == [t |-> "str", v |-> s]

item_lic ==
  PyDict([id |-> <<"C", "1">>, title |-> <<"H", "a", "s", " ", "l", "i", "c", "e", "n", "s", "e">>,
          keywords |-> << <<"z", "z">>, <<"L", "I", "C", "E", "N", "S", "E">> >>,
          remediation |-> <<"A", "d", "d", " ", "L", "I", "C", "E", "N", "S", "E", " ", "f", "i", "l", "e">>])
item_none == PyDict(<<>>)
item_empty ==
  PyDict([id |-> <<"C", "3">>, title |-> <<"E", "m", "p", "t", "y">>, description |-> <<"n", "o", "t", "h", "i", "n", "g">>,
          keywords |-> <<>>, remediation |-> <<"s", "k", "i", "p">>])

\* What json.load makes of a file: "invalid" (it raises), a list of items,
\* an object (its keys in order) or a number.
JsonInvalid == [t |-> "invalid"]
JsonList(items) == [t |-> "list", v |-> items]
JsonObject(keys) == [t |-> "object", v |-> keys]
JsonNumber == [t |-> "number"]

ChecklistFilePool ==
  { [name |-> <<"a", ".", "j", "s", "o", "n">>, readable |-> TRUE,
     json |-> JsonList(<<item_lic, item_none>>)],
    [name |-> <<"b", ".", "j", "s", "o", "n">>, readable |-> TRUE,
     json |-> JsonList(<<item_empty>>)],
    [name |-> <<"b", "a", "d", ".", "j", "s", "o", "n">>, readable |-> TRUE, json |-> JsonInvalid],
    [name |-> <<"l", "o", "c", "k", "e", "d", ".", "j", "s", "o", "n">>, readable |-> FALSE,
     json |-> JsonList(<<item_lic>>)],
    [name |-> <<"n", "o", "t", "e", "s", ".", "t", "x", "t">>, readable |-> TRUE,
     json |-> JsonList(<<item_lic>>)],
    [name |-> <<"o", "b", "j", ".", "j", "s", "o", "n">>, readable |-> TRUE,
     json |-> JsonObject(<< <<"i", "d">>, <<"k", "e", "y", "w", "o", "r", "d", "s">> >>)],
    [name |-> <<"n", "u", "m", ".", "j", "s", "o", "n">>, readable |-> TRUE, json |-> JsonNumber] }

\* sequences of at most n distinct elements of S
RECURSIVE DistinctSeqs(_, _)
DistinctSeqs(S, n) ==
  IF n = 0 THEN {<<>>}
  ELSE LET shorter == DistinctSeqs(S, n - 1)
       IN  shorter \cup
           { Append(s, x) : <<s, x>> \in
               { p \in shorter \X S :
                   /\ Len(p[1]) = n - 1
                   /\ \A i \in 1..Len(p[1]) : p[1][i] # p[2] } }

\* The checklist directory: missing, not listable, or a listing.
ChecklistDirs ==
  { [state |-> "missing", listing |-> <<>>],
    [state |-> "unlistable", listing |-> <<>>] } \cup
  { [state |-> "dir", listing |-> l] :
      l \in DistinctSeqs(ChecklistFilePool, MaxCFiles) }

\* --------------------------------------------------------- repository tree
\* fs[1] lists the files of the working directory, fs[n + 1] those of the
\* directory n levels below it; a path names a directory by its level.
RepoFilePool ==
  { [name |-> <<"L", "I", "C", "E", "N", "S", "E">>, readable |-> TRUE,
     data |-> <<"T", "h", "i", "s", " ", "p", "r", "o", "j", "e", "c", "t", " ", "i", "s", " ", "M", "I", "T", " ", "L", "i", "c", "e", "n", "s", "e">>],
    [name |-> <<"l", "o", "g", "o", ".", "p", "n", "g">>, readable |-> TRUE, data |-> <<"l", "i", "c", "e", "n", "s", "e">>],
    [name |-> <<"s", "e", "c", "r", "e", "t", ".", "t", "x", "t">>, readable |-> FALSE, data |-> <<"l", "i", "c", "e", "n", "s", "e">>],
    [name |-> <<"R", "E", "A", "D", "M", "E", ".", "m", "d">>, readable |-> TRUE, data |-> <<"s", "e", "e", " ", "d", "o", "c", "s">>] }

RECURSIVE Trees(_, _)
Trees(depth, files) ==
  LET here == DistinctSeqs(RepoFilePool, files)
  IN  { <<l>> : l \in here } \cup
      (IF depth = 0 THEN {}
       ELSE { <<p[1]>> \o p[2] :
                p \in { q \in here \X Trees(depth - 1, files) :
                          Len(q[1]) < files } })

RECURSIVE file_count(_)
file_count(tree) ==
  IF tree = <<>> THEN 0 ELSE Len(tree[1]) + file_count(Tail(tree))

RepoTrees == { t \in Trees(MaxDepth, MaxFiles) : file_count(t) <= MaxFiles }

\* A call's outcome: exc is TRUE when it raised, val is what it returned.
Return(v) == [exc |-> FALSE, val |-> v]
Raise == [exc |-> TRUE, val |-> <<>>]

\* --------------------------------------------------------- load_checklists
\* checklists.extend(items), items being whatever json.load returned
list_extend(checklists, items) ==
  CASE items.t = "list" -> Return(checklists \o items.v)
    [] items.t = "object" ->
         Return(checklists \o [i \in 1..Len(items.v) |-> PyStr(items.v[i])])
    [] OTHER -> Raise

\* with open(full) as f: items = json.load(f)
json_load(f) ==
  IF f.readable /\ f.json.t # "invalid" THEN Return(f.json) ELSE Raise

RECURSIVE load_files(_, _, _)
load_files(listing, i, checklists) ==
  IF i > Len(listing) THEN checklists
  ELSE LET f == listing[i]
           items == json_load(f)
           ext == IF items.exc THEN Raise
                  ELSE list_extend(checklists, items.val)
       IN  IF ~endswith(f.name, <<".", "j", "s", "o", "n">>)
           THEN load_files(listing, i + 1, checklists)
           ELSE IF ext.exc
           THEN load_files(listing, i + 1, checklists)
           ELSE load_files(listing, i + 1, ext.val)

load_checklists(path) ==
  CASE path.state = "missing" -> Return(<<>>)
    [] path.state = "unlistable" -> Raise
    [] OTHER -> Return(load_files(path.listing, 1, <<>>))

\* -------------------------------------------------- scan_repo_for_keywords
BinarySuffixes ==
  { <<".", "p", "n", "g">>, <<".", "j", "p", "g">>, <<".", "j", "p", "e", "g">>, <<".", "g", "i", "f">>, <<".", "c", "l", "a", "s", "s">> }

\* has_binary_suffix with '.png' left out of the tuple
has_binary_suffix_no_png(fn) ==
  \E sfx \in BinarySuffixes \ { <<".", "p", "n", "g">> } : endswith(fn, sfx)

has_binary_suffix(fn) == \E sfx \in BinarySuffixes : endswith(fn, sfx)

\* os.walk(repo_path): the file lists of the directory and of those below
\* it, top down; nothing when the directory does not exist
os_walk(tree, repo_path) ==
  IF repo_path + 1 > Len(tree) THEN <<>>
  ELSE SubSeq(tree, repo_path + 1, Len(tree))

\* open(p, errors='ignore') and f.read()
read_text(f) == IF f.readable THEN Return(f.data) ELSE Raise

\* for k in low_kw: if k in data: return True
any_keyword_in(low_kw, data) ==
  \E i \in 1..Len(low_kw) : str_in(low_kw[i], data)

\* scan_files comparing the keywords with the content as read, not lowered
RECURSIVE scan_files_as_read(_, _, _)
scan_files_as_read(files, i, low_kw) ==
  IF i > Len(files) THEN Return(FALSE)
  ELSE LET fn == files[i]
           text == read_text(fn)
       IN  IF has_binary_suffix(fn.name)
           THEN scan_files_as_read(files, i + 1, low_kw)
           ELSE IF text.exc
           THEN scan_files_as_read(files, i + 1, low_kw)
           ELSE IF any_keyword_in(low_kw, text.val)
           THEN Return(TRUE)
           ELSE scan_files_as_read(files, i + 1, low_kw)

\* scan_files without the try/except around the read
RECURSIVE scan_files_unguarded(_, _, _)
scan_files_unguarded(files, i, low_kw) ==
  IF i > Len(files) THEN Return(FALSE)
  ELSE LET fn == files[i]
           text == read_text(fn)
       IN  IF has_binary_suffix(fn.name)
           THEN scan_files_unguarded(files, i + 1, low_kw)
           ELSE IF text.exc
           THEN Raise
           ELSE IF any_keyword_in(low_kw, str_lower(text.val))
           THEN Return(TRUE)
           ELSE scan_files_unguarded(files, i + 1, low_kw)

RECURSIVE scan_files(_, _, _)
scan_files(files, i, low_kw) ==
  IF i > Len(files) THEN Return(FALSE)
  ELSE LET fn == files[i]
           text == read_text(fn)
       IN  IF has_binary_suffix(fn.name)
           THEN scan_files(files, i + 1, low_kw)
           ELSE IF text.exc
           THEN scan_files(files, i + 1, low_kw)
           ELSE IF any_keyword_in(low_kw, str_lower(text.val))
           THEN Return(TRUE)
           ELSE scan_files(files, i + 1, low_kw)

RECURSIVE scan_walk(_, _, _)
scan_walk(walk, d, low_kw) ==
  IF d > Len(walk) THEN Return(FALSE)
  ELSE LET here == scan_files(walk[d], 1, low_kw)
       IN  IF here.exc \/ here.val THEN here
           ELSE scan_walk(walk, d + 1, low_kw)

scan_repo_for_keywords(tree, repo_path, keywords) ==
  LET low_kw == [i \in 1..Len(keywords) |-> str_lower(keywords[i])]
  IN  scan_walk(os_walk(tree, repo_path), 1, low_kw)

\* -------------------------------------------------------------- audit_repo
\* item_keywords with [''] as the default
item_keywords_blank(item) == dict_get(item, "keywords", << <<>> >>)

\* item.get('keywords', [])
item_keywords(item) == dict_get(item, "keywords", <<>>)

audit_result(item, present) ==
  [id |-> dict_get(item, "id", None),
   title |-> dict_get(item, "title", None),
   description |-> dict_get(item, "description", None),
   present |-> present,
   remediation |-> dict_get(item, "remediation", None)]

RECURSIVE audit_items(_, _, _, _, _)
audit_items(tree, repo_path, checklists, i, results) ==
  IF i > Len(checklists) THEN Return(results)
  ELSE LET item == checklists[i]
           present == scan_repo_for_keywords(tree, repo_path,
                                             item_keywords(item.v))
       IN  IF item.t # "dict" THEN Raise
           ELSE IF present.exc THEN Raise
           ELSE audit_items(tree, repo_path, checklists, i + 1,
                            Append(results, audit_result(item.v, present.val)))

\* audit_repo putting each result in front of the earlier ones
audit_repo_prepending(tree, repo_path, checklists) ==
  audit_items(tree, repo_path,
              [i \in 1..Len(checklists) |-> checklists[Len(checklists) + 1 - i]],
              1, <<>>)

audit_repo(tree, repo_path, checklists) ==
  audit_items(tree, repo_path, checklists, 1, <<>>)

\* ------------------------------------------------ generate_markdown_report
\* count_present counting every result
count_every(results) == Len(results)

\* sum(1 for r in results if r['present'])
RECURSIVE count_present(_)
count_present(results) ==
  IF results = <<>> THEN 0
  ELSE (IF results[1].present THEN 1 ELSE 0) + count_present(Tail(results))

summary_lines(results, title) ==
  << <<"#", " ">> \o title,
     <<>>,
     <<"-", " ", "T", "o", "t", "a", "l", " ", "c", "h", "e", "c", "k", "s", ":", " ">> \o int_str(Len(results)),
     <<"-", " ", "C", "h", "e", "c", "k", "s", " ", "d", "e", "t", "e", "c", "t", "e", "d", " ", "(", "h", "e", "u", "r", "i", "s", "t", "i", "c", " ", "p", "a", "s", "s", ")", ":", " ">> \o int_str(count_present(results)),
     <<>> >>

\* section_lines with the remediation line in every section
section_lines_all_remediation(r) ==
  LET status == IF r.present THEN <<"P", "A", "S", "S">> ELSE <<"F", "A", "I", "L">>
  IN  << <<"#", "#", " ">> \o format_value(r.id) \o <<" ", "-", " ">> \o format_value(r.title) \o <<" ", " ">>,
         <<"-", " ", "S", "t", "a", "t", "u", "s", ":", " ", "*", "*">> \o status \o <<"*", "*">>,
         <<"-", " ", "D", "e", "s", "c", "r", "i", "p", "t", "i", "o", "n", ":", " ">> \o format_value(dict_get(r, "description", <<>>)),
         <<"-", " ", "R", "e", "m", "e", "d", "i", "a", "t", "i", "o", "n", ":", " ">> \o format_value(dict_get(r, "remediation", <<>>)),
         <<>> >>

section_lines(r) ==
  LET status == IF r.present THEN <<"P", "A", "S", "S">> ELSE <<"F", "A", "I", "L">>
  IN  << <<"#", "#", " ">> \o format_value(r.id) \o <<" ", "-", " ">> \o format_value(r.title) \o <<" ", " ">>,
         <<"-", " ", "S", "t", "a", "t", "u", "s", ":", " ", "*", "*">> \o status \o <<"*", "*">>,
         <<"-", " ", "D", "e", "s", "c", "r", "i", "p", "t", "i", "o", "n", ":", " ">> \o format_value(dict_get(r, "description", <<>>)) >>
      \o (IF ~r.present
          THEN << <<"-", " ", "R", "e", "m", "e", "d", "i", "a", "t", "i", "o", "n", ":", " ">> \o format_value(dict_get(r, "remediation", <<>>)) >>
          ELSE <<>>)
      \o << <<>> >>

RECURSIVE report_sections(_)
report_sections(results) ==
  IF results = <<>> THEN <<>>
  ELSE section_lines(results[1]) \o report_sections(Tail(results))

generate_markdown_report(results, title) ==
  join_lines(summary_lines(results, title) \o report_sections(results))

\* -------------------------------------------------- json.dump(results, 2)
json_value(v) ==
  IF v = None THEN <<"n", "u", "l", "l">> ELSE <<"\"">> \o v \o <<"\"">>

json_bool(b) == IF b THEN <<"t", "r", "u", "e">> ELSE <<"f", "a", "l", "s", "e">>

json_member(key, text) == <<" ", " ", " ", " ", "\"">> \o key \o <<"\"", ":", " ">> \o text

json_object(r) ==
  <<" ", " ", "{">> \o <<NL>>
  \o json_member(<<"i", "d">>, json_value(r.id)) \o <<",", NL>>
  \o json_member(<<"t", "i", "t", "l", "e">>, json_value(r.title)) \o <<",", NL>>
  \o json_member(<<"d", "e", "s", "c", "r", "i", "p", "t", "i", "o", "n">>, json_value(r.description)) \o <<",", NL>>
  \o json_member(<<"p", "r", "e", "s", "e", "n", "t">>, json_bool(r.present)) \o <<",", NL>>
  \o json_member(<<"r", "e", "m", "e", "d", "i", "a", "t", "i", "o", "n">>, json_value(r.remediation)) \o <<NL>>
  \o <<" ", " ", "}">>

RECURSIVE json_objects(_)
json_objects(results) ==
  IF Len(results) = 1 THEN json_object(results[1])
  ELSE json_object(results[1]) \o <<",", NL>> \o json_objects(Tail(results))

json_dumps(results) ==
  IF results = <<>> THEN <<"[", "]">>
  ELSE <<"[", NL>> \o json_objects(results) \o <<NL, "]">>

\* ------------------------------------------------------------ file output
\* open(name, 'w') in the working directory and write data
write_file(tree, name, data) ==
  LET cwd == tree[1]
      new == [name |-> name, readable |-> TRUE, data |-> data]
  IN  IF \E i \in 1..Len(cwd) : cwd[i].name = name
      THEN [tree EXCEPT ![1] =
              [i \in 1..Len(cwd) |-> IF cwd[i].name = name THEN new ELSE cwd[i]]]
      ELSE [tree EXCEPT ![1] = Append(cwd, new)]

\* ZipFile(out, 'w') holding the two entries uncompressed, as read back by
\* open(errors='ignore'): every header is "PK" and bytes that are not text,
\* shown as "?"; names and stored data are kept as they are.
zip_header == <<"P", "K", "?">>

zip_text(md, js) ==
  zip_header \o <<"t", "m", "p", "_", "c", "o", "m", "p", "l", "i", "a", "n", "c", "e", "_", "r", "e", "p", "o", "r", "t", ".", "m", "d">> \o md
  \o zip_header \o <<"t", "m", "p", "_", "a", "u", "d", "i", "t", ".", "j", "s", "o", "n">> \o js
  \o zip_header \o <<"t", "m", "p", "_", "c", "o", "m", "p", "l", "i", "a", "n", "c", "e", "_", "r", "e", "p", "o", "r", "t", ".", "m", "d">>
  \o zip_header \o <<"t", "m", "p", "_", "a", "u", "d", "i", "t", ".", "j", "s", "o", "n">>
  \o zip_header

\* datetime.utcnow().isoformat(): the clock readings a command may get
Timestamps == { <<"2", "0", "2", "6", "-", "0", "1", "-", "0", "1", "T", "0", "0", ":", "0", "0", ":", "0", "0">> }

\* ---------------------------------------------------------------- commands
\* args.repo and args.out when the option is not given
NoArg == -1

\* --repo: not given, or the path of a directory below the working
\* directory, named by its level (it exists when the tree is that deep)
RepoArgs == {NoArg} \cup (1..MaxDepth)

\* a path given for --out: a file outside the working directory tree
Elsewhere == 0
OutArgs == {NoArg, Elsewhere}

os_getcwd == 0

Idle ==
  [cmd |-> "none", repo |-> 0, loaded |-> Return(<<>>),
   audited |-> Return(<<>>), md |-> <<>>, scanned |-> <<>>]

TypeOK ==
  /\ cdir \in ChecklistDirs
  /\ Len(fs) \in 1..(MaxDepth + 1)
  /\ repo_arg \in RepoArgs
  /\ last.cmd \in {"none", "audit", "report", "certify", "checklist"}

\* checklist directories holding the well-formed checklist files only
WellFormed(f) ==
  f.readable /\ f.json.t = "list" /\ endswith(f.name, <<".", "j", "s", "o", "n">>)

PlainDirs ==
  { d \in ChecklistDirs :
      /\ d.state = "dir"
      /\ Len(d.listing) = 2
      /\ \A i \in 1..Len(d.listing) : WellFormed(d.listing[i]) }

\* the empty working directory
EmptyTrees == { t \in RepoTrees : file_count(t) = 0 /\ Len(t) = 1 }

\* trees holding at most one file
SmallTrees == { t \in RepoTrees : file_count(t) <= 1 }

NoRun ==
  /\ repo_arg \in RepoArgs
  /\ first = <<>>
  /\ last = Idle

\* a session of commands, all given the same --repo
Init ==
  /\ cdir \in PlainDirs
  /\ fs \in SmallTrees
  /\ NoRun

\* a single command, on any checklist directory or on any tree
InitCall ==
  /\ \/ cdir \in ChecklistDirs /\ fs \in EmptyTrees
     \/ cdir \in PlainDirs /\ fs \in RepoTrees
  /\ NoRun

\* the part the three auditing commands share: resolve the root, load the
\* checklists, audit
Run(cmd) ==
  LET repo == IF repo_arg = NoArg THEN os_getcwd ELSE repo_arg
      checks == load_checklists(cdir)
      results == IF checks.exc THEN Raise ELSE audit_repo(fs, repo, checks.val)
  IN  [cmd |-> cmd, repo |-> repo, loaded |-> checks,
       audited |-> results, md |-> <<>>, scanned |-> fs]

Remember(run) ==
  IF ~run.audited.exc /\ first = <<>> THEN <<run.audited.val>> ELSE first

cmd_audit(out_arg) ==
  LET run == Run("audit")
  IN  /\ last' = run
      /\ first' = Remember(run)
      /\ UNCHANGED <<cdir, fs, repo_arg>>

cmd_report(out_arg, now) ==
  LET run == Run("report")
      md == generate_markdown_report(run.audited.val,
              <<"C", "o", "m", "p", "l", "i", "a", "n", "c", "e", " ", "R", "e", "p", "o", "r", "t", " ", "(">> \o now \o <<"Z", ")">>)
  IN  /\ first' = Remember(run)
      /\ IF run.audited.exc
         THEN last' = run /\ fs' = fs
         ELSE /\ last' = [run EXCEPT !.md = md]
              /\ fs' = IF out_arg = NoArg
                       THEN write_file(fs, <<"c", "o", "m", "p", "l", "i", "a", "n", "c", "e", "-", "r", "e", "p", "o", "r", "t", ".", "m", "d">>, md)
                       ELSE fs
      /\ UNCHANGED <<cdir, repo_arg>>

cmd_certify(out_arg, now) ==
  LET run == Run("certify")
      md == generate_markdown_report(run.audited.val,
              <<"C", "e", "r", "t", "i", "f", "i", "c", "a", "t", "i", "o", "n", " ", "P", "a", "c", "k", "e", "t", " ", "(">> \o now \o <<"Z", ")">>)
  IN  /\ first' = Remember(run)
      /\ IF run.audited.exc
         THEN last' = run /\ fs' = fs
         ELSE /\ last' = [run EXCEPT !.md = md]
              /\ fs' = IF out_arg = NoArg
                       THEN write_file(fs, <<"c", "e", "r", "t", "i", "f", "i", "c", "a", "t", "i", "o", "n", "-", "p", "a", "c", "k", "e", "t", ".", "z", "i", "p">>,
                                       zip_text(md, json_dumps(run.audited.val)))
                       ELSE fs
      /\ UNCHANGED <<cdir, repo_arg>>

cmd_checklist ==
  /\ last' = [Idle EXCEPT !.cmd = "checklist", !.loaded = load_checklists(cdir),
                          !.scanned = fs]
  /\ UNCHANGED <<cdir, fs, repo_arg, first>>

Next ==
  \/ \E out_arg \in OutArgs : cmd_audit(out_arg)
  \/ \E out_arg \in OutArgs, now \in Timestamps : cmd_report(out_arg, now)
  \/ \E out_arg \in OutArgs, now \in Timestamps : cmd_certify(out_arg, now)
  \/ cmd_checklist

Spec == Init /\ [][Next]_vars

\* the first command of a session
first_audit == last.cmd = "none" /\ \E out_arg \in OutArgs : cmd_audit(out_arg)

first_report ==
  last.cmd = "none" /\ \E out_arg \in OutArgs, now \in Timestamps :
    cmd_report(out_arg, now)

first_certify ==
  last.cmd = "none" /\ \E out_arg \in OutArgs, now \in Timestamps :
    cmd_certify(out_arg, now)

first_checklist == last.cmd = "none" /\ cmd_checklist

NextCall == first_audit \/ first_report \/ first_certify \/ first_checklist

SpecCall == InitCall /\ [][NextCall]_vars

\* ------------------------------------------------------------------ claims
Audited == last.cmd \in {"audit", "report", "certify"} /\ ~last.loaded.exc
Rendered == last.cmd \in {"report", "certify"} /\ ~last.audited.exc
Checks == last.loaded.val
Results == last.audited.val

\* the loaded sequence is a sequence of checklist-item records
IsChecklist(checks) == \A i \in 1..Len(checks) : checks[i].t = "dict"

\* a field of a checklist item, None when the item lacks it
FieldOf(item, key) == IF key \in DOMAIN item THEN item[key] ELSE None

\* the files reachable from the root the last command scanned
Reachable ==
  { last.scanned[d][i] :
      <<d, i>> \in { p \in (1..Len(last.scanned)) \X (1..MaxFiles + 2) :
                       p[1] > last.repo /\ p[2] <= Len(last.scanned[p[1]]) } }

\* the extension of a file name: from its last "." on
ExtensionOf(fn) ==
  IF \E i \in 1..Len(fn) : fn[i] = "."
  THEN LET dot == CHOOSE i \in 1..Len(fn) :
                    fn[i] = "." /\ \A j \in (i + 1)..Len(fn) : fn[j] # "."
       IN  SubSeq(fn, dot, Len(fn))
  ELSE <<>>

Scannable(fn) == ExtensionOf(fn.name) \notin BinarySuffixes

\* some keyword occurs in the file's content, letter case set aside
Mentions(fn, keywords) ==
  \E k \in 1..Len(keywords) : str_in(str_lower(keywords[k]), str_lower(fn.data))

KeywordHit(keywords) ==
  \E fn \in Reachable : Scannable(fn) /\ fn.readable /\ Mentions(fn, keywords)

\* C1: audit_repo returns one result per checklist item, in order; each
\* copies id, title, description and remediation from its item, and its
\* present is what the scanner reports for the item's keywords.
C1_AuditFollowsChecklist ==
  (Audited /\ IsChecklist(Checks)) =>
    /\ ~last.audited.exc
    /\ Len(Results) = Len(Checks)
    /\ \A i \in 1..Len(Checks) :
         LET item == Checks[i].v
             r == Results[i]
         IN  /\ r.id = FieldOf(item, "id")
             /\ r.title = FieldOf(item, "title")
             /\ r.description = FieldOf(item, "description")
             /\ r.remediation = FieldOf(item, "remediation")
             /\ r.present =
                  scan_repo_for_keywords(last.scanned, last.repo,
                    IF "keywords" \in DOMAIN item THEN item.keywords ELSE <<>>).val

C1_Witness ==
  /\ Audited /\ IsChecklist(Checks) /\ ~last.audited.exc
  /\ Len(Results) >= 3
  /\ \E i, j \in 1..Len(Results) :
       /\ Results[i].present /\ ~Results[j].present
       /\ Results[i].id # Results[j].id

\* C2: the scanner answers true exactly when a readable file under the
\* root, at any depth, whose extension is not excluded, holds a keyword in
\* its content, letter case set aside in both.
C2_ScanFindsKeyword ==
  (Audited /\ IsChecklist(Checks) /\ ~last.audited.exc) =>
    \A i \in 1..Len(Results) :
      Results[i].present <=> KeywordHit(item_keywords(Checks[i].v))

C2_Witness ==
  /\ Audited /\ IsChecklist(Checks) /\ ~last.audited.exc
  /\ last.repo = 0 /\ Len(last.scanned) = 2
  /\ last.scanned[1] # <<>>
  /\ \A fn \in { last.scanned[1][i] : i \in 1..Len(last.scanned[1]) } :
       ~Mentions(fn, << <<"L", "I", "C", "E", "N", "S", "E">> >>) \/ ~Scannable(fn)
  /\ \E i \in 1..Len(Results) : Results[i].present

C2_WitnessNoHit ==
  /\ Audited /\ IsChecklist(Checks) /\ ~last.audited.exc
  /\ \E fn \in Reachable : Scannable(fn) /\ fn.readable
  /\ \E i \in 1..Len(Results) :
       item_keywords(Checks[i].v) # <<>> /\ ~Results[i].present

\* C3: an item whose keywords are missing or empty is reported absent,
\* whatever the repository holds, and the audit does not fail.
C3_NoKeywordsNeverPresent ==
  (Audited /\ IsChecklist(Checks)) =>
    /\ ~last.audited.exc
    /\ \A i \in 1..Len(Checks) :
         ("keywords" \notin DOMAIN Checks[i].v \/ Checks[i].v.keywords = <<>>)
           => ~Results[i].present

C3_Witness ==
  /\ Audited /\ IsChecklist(Checks) /\ ~last.audited.exc
  /\ \E fn \in Reachable : Scannable(fn) /\ fn.readable
  /\ \E i, j \in 1..Len(Checks) :
       /\ "keywords" \notin DOMAIN Checks[i].v /\ ~Results[i].present
       /\ "keywords" \in DOMAIN Checks[j].v /\ Checks[j].v.keywords = <<>>
       /\ ~Results[j].present

\* C4: when the root does not exist, is empty or holds only files with an
\* excluded extension, every item is reported absent and nothing fails.
C4_NothingToScanAllAbsent ==
  (Audited /\ IsChecklist(Checks) /\ \A fn \in Reachable : ~Scannable(fn)) =>
    /\ ~last.audited.exc
    /\ Len(Results) = Len(Checks)
    /\ \A i \in 1..Len(Results) : ~Results[i].present

C4_Witness ==
  /\ Audited /\ IsChecklist(Checks) /\ ~last.audited.exc
  /\ Reachable # {}
  /\ \A fn \in Reachable : ~Scannable(fn)
  /\ \E fn \in Reachable, i \in 1..Len(Checks) :
       Mentions(fn, item_keywords(Checks[i].v)) /\ ~Results[i].present

C4_WitnessNoRoot ==
  /\ Audited /\ IsChecklist(Checks) /\ ~last.audited.exc
  /\ last.repo >= Len(last.scanned)
  /\ \E i \in 1..Len(Checks) :
       item_keywords(Checks[i].v) # <<>> /\ ~Results[i].present

\* C7: the scan never raises; an unreadable file is skipped and a keyword
\* in a readable file is still found.
C7_UnreadableFilesSkipped ==
  (Audited /\ IsChecklist(Checks)) =>
    /\ ~last.audited.exc
    /\ \A i \in 1..Len(Checks) :
         ( /\ \E fn \in Reachable : ~fn.readable
           /\ \E fn \in Reachable :
                /\ fn.readable /\ Scannable(fn)
                /\ Mentions(fn, item_keywords(Checks[i].v)) )
         => Results[i].present

\* an unreadable file comes first in the walk and the hit after it
C7_Witness ==
  /\ Audited /\ IsChecklist(Checks) /\ ~last.audited.exc
  /\ last.repo = 0 /\ Len(last.scanned[1]) >= 2
  /\ ~last.scanned[1][1].readable /\ Scannable(last.scanned[1][1])
  /\ last.scanned[1][2].readable
  /\ \E i \in 1..Len(Checks) :
       /\ Mentions(last.scanned[1][2], item_keywords(Checks[i].v))
       /\ Results[i].present

\* --- reading the rendered report back
\* text.split('\n')
split_lines(text) ==
  LET breaks == { i \in 1..Len(text) : text[i] = NL }
      break(k) == CHOOSE i \in breaks :
                    Cardinality({ j \in breaks : j < i }) = k - 1
      n == Cardinality(breaks) + 1
  IN  [k \in 1..n |->
         SubSeq(text,
                IF k = 1 THEN 1 ELSE break(k - 1) + 1,
                IF k = n THEN Len(text) ELSE break(k) - 1)]

ReportLines == split_lines(last.md)

StartsWith(s, prefix) ==
  Len(prefix) <= Len(s) /\ SubSeq(s, 1, Len(prefix)) = prefix

After(s, prefix) == SubSeq(s, Len(prefix) + 1, Len(s))

DigitValue(c) == (CHOOSE d \in 1..10 : Digits[d] = c) - 1

IsNumber(s) == s # <<>> /\ \A i \in 1..Len(s) : \E d \in 1..10 : Digits[d] = s[i]

RECURSIVE NumberOf(_)
NumberOf(s) ==
  IF s = <<>> THEN 0
  ELSE 10 * NumberOf(SubSeq(s, 1, Len(s) - 1)) + DigitValue(s[Len(s)])

TotalPrefix == <<"-", " ", "T", "o", "t", "a", "l", " ", "c", "h", "e", "c", "k", "s", ":", " ">>
DetectedPrefix == <<"-", " ", "C", "h", "e", "c", "k", "s", " ", "d", "e", "t", "e", "c", "t", "e", "d", " ", "(", "h", "e", "u", "r", "i", "s", "t", "i", "c", " ", "p", "a", "s", "s", ")", ":", " ">>

\* C8: the report's "Total checks" is the number of results, its "Checks
\* detected" the number of results that are present, never more than the
\* total.
C8_ReportCounts ==
  Rendered =>
    LET lines == ReportLines
        total == After(lines[3], TotalPrefix)
        detected == After(lines[4], DetectedPrefix)
    IN  /\ Len(lines) >= 5
        /\ StartsWith(lines[3], TotalPrefix) /\ IsNumber(total)
        /\ StartsWith(lines[4], DetectedPrefix) /\ IsNumber(detected)
        /\ NumberOf(total) = Len(Results)
        /\ NumberOf(detected) =
             Cardinality({ i \in 1..Len(Results) : Results[i].present })
        /\ NumberOf(detected) <= NumberOf(total)

C8_Witness ==
  /\ Rendered
  /\ \E i, j \in 1..Len(Results) : Results[i].present /\ ~Results[j].present
  /\ Len(Results) >= 3

\* the sections of the report: the runs of non-empty lines after the
\* heading and the summary
RECURSIVE blocks_of(_, _, _)
blocks_of(lines, i, block) ==
  IF i > Len(lines) THEN (IF block = <<>> THEN <<>> ELSE <<block>>)
  ELSE IF lines[i] = <<>>
  THEN (IF block = <<>> THEN <<>> ELSE <<block>>) \o blocks_of(lines, i + 1, <<>>)
  ELSE blocks_of(lines, i + 1, Append(block, lines[i]))

ReportSections == blocks_of(ReportLines, 6, <<>>)

StatusLine(word) == <<"-", " ", "S", "t", "a", "t", "u", "s", ":", " ", "*", "*">> \o word \o <<"*", "*">>
RemediationPrefix == <<"-", " ", "R", "e", "m", "e", "d", "i", "a", "t", "i", "o", "n", ":", " ">>
DescriptionPrefix == <<"-", " ", "D", "e", "s", "c", "r", "i", "p", "t", "i", "o", "n", ":", " ">>

\* C9: after heading and summary the report has one section per result, in
\* order; the status is PASS exactly for a present result and a remediation
\* line appears exactly for an absent one.
C9_ReportSections ==
  Rendered =>
    LET sections == ReportSections
    IN  /\ Len(sections) = Len(Results)
        /\ \A i \in 1..Len(Results) :
             LET sec == sections[i]
                 r == Results[i]
             IN  /\ Len(sec) >= 3
                 /\ sec[1] = <<"#", "#", " ">> \o format_value(r.id) \o <<" ", "-", " ">>
                               \o format_value(r.title) \o <<" ", " ">>
                 /\ sec[2] = StatusLine(<<"P", "A", "S", "S">>) <=> r.present
                 /\ sec[2] = StatusLine(<<"F", "A", "I", "L">>) <=> ~r.present
                 /\ StartsWith(sec[3], DescriptionPrefix)
                 /\ (\E l \in 1..Len(sec) : StartsWith(sec[l], RemediationPrefix))
                      <=> ~r.present

C9_Witness ==
  /\ Rendered /\ Len(ReportSections) >= 3
  /\ \E i, j \in 1..Len(Results) :
       /\ Results[i].present /\ ReportSections[i][2] = StatusLine(<<"P", "A", "S", "S">>)
       /\ ~Results[j].present /\ ReportSections[j][2] = StatusLine(<<"F", "A", "I", "L">>)
       /\ Len(ReportSections[j]) = 4

\* C10: rendering never fails, and a field the checklist item lacks is
\* rendered as the empty string in its line.
C10_AbsentFieldsRenderEmpty ==
  (Rendered /\ Len(ReportSections) = Len(Results)) =>
    \A i \in 1..Len(Results) :
      LET sec == ReportSections[i]
          r == Results[i]
      IN  /\ r.description = None => sec[3] = DescriptionPrefix
          /\ (r.remediation = None /\ ~r.present) => sec[4] = RemediationPrefix
          /\ (r.id = None /\ r.title = None) => sec[1] = <<"#", "#", " ", " ", "-", " ", " ", " ">>

\* the items of the files that parse as a sequence of checklist items
RECURSIVE ParsedItems(_)
ParsedItems(listing) ==
  IF listing = <<>> THEN <<>>
  ELSE (IF WellFormed(listing[1]) THEN listing[1].json.v ELSE <<>>)
       \o ParsedItems(Tail(listing))

\* C6: the loader never fails, whatever the directory, and returns exactly
\* the items of the files that parsed; any other file adds nothing.
C6_LoaderNeverFails ==
  last.cmd # "none" =>
    /\ ~last.loaded.exc
    /\ Checks = ParsedItems(cdir.listing)

\* C5: in a session of audit, report and certify commands on one root, the
\* commands writing to their default locations or elsewhere, every run
\* reports what the first run reported.
C5_RunsAgree ==
  (Audited /\ ~last.audited.exc /\ first # <<>>) => Results = first[1]
====
